---- MODULE Spec2Model ----
(***************************************************************************)
(* Model of colour_experiment.py, a Streamlit colour-perception test.      *)
(*                                                                         *)
(* Streamlit executes the script top to bottom once per event (a widget    *)
(* press, or the st.rerun() a run ends with); st.session_state survives    *)
(* between runs.  One action of this model is one script run.  The         *)
(* variables are the keys of st.session_state, the wall clock, the screen  *)
(* the browser currently shows (which buttons can be pressed), and a few   *)
(* history variables that only record what the runs did.  A run is taken   *)
(* as atomic: the runs of one session are serialised by Streamlit.         *)
(*                                                                         *)
(* Time is counted in clock ticks of 0.1 s (the step of the interval       *)
(* sliders): time.time() is read with that resolution, so two reads within *)
(* one tick return the same value, and a reaction time is a tick           *)
(* difference times TickMs.                                                *)
(***************************************************************************)
EXTENDS Integers, Sequences, FiniteSets, TLC

VARIABLES
    \* ---- st.session_state
    phase,                  \* 'setup' | 'practice' | 'main' | 'results'
    current_trial,          \* index into spectra_order
    current_step,           \* position along the gradient
    last_update_time,       \* clock reading of the last step advance
    last_step_change_time,  \* reference point of the reaction time
    next_interval,          \* wait before the next step advance
    all_results,            \* the session result log
    current_trial_results,  \* detections of the trial in progress
    spectra_order,          \* the trial order
    false_alarms,           \* false-alarm counter of the trial in progress
    total_steps,            \* configured gradient length (0: key not set yet)
    min_interval,           \* configured bounds of the wait (0: not set yet)
    max_interval,
    participant_id,         \* saved by Start Experiment ("": the default)
    selected_spectra,       \* saved by Start Experiment (<<>>: key not set yet)
    trials_per_spectrum,    \* saved by Start Experiment (0: key not set yet)
    \* ---- environment
    now,                    \* what time.time() returns
    screen,                 \* what the browser shows; "stale": a rerun is pending
    errors,                 \* the validation errors the setup page shows
    current_hex,            \* the colour box the page shows, or NoColour
    \* ---- history variables (written, never read, by the actions)
    presses,                \* detect presses handled in the trial in progress
    accepted,               \* detect presses handled in main trials this session
    log_at_start,           \* Len(all_results) when the trial in progress started
    completions,            \* times the trial in progress reached total_steps
    sampled,                \* the last run drew a new next_interval
    interp_step,            \* step given to interpolate_color by the last run, or NoCall
    trial_start_time,       \* clock of the run that started the trial in progress
    randomized              \* Randomize Spectrum Order was ticked at Start Experiment

vars == <<phase, current_trial, current_step, last_update_time,
          last_step_change_time, next_interval, all_results,
          current_trial_results, spectra_order, false_alarms, total_steps,
          min_interval, max_interval, participant_id, selected_spectra,
          trials_per_spectrum, now, screen, errors, presses, accepted,
          log_at_start, completions, sampled, interp_step, current_hex,
          trial_start_time, randomized>>

session == <<phase, current_trial, current_step, last_update_time,
             last_step_change_time, next_interval, all_results,
             current_trial_results, spectra_order, false_alarms, total_steps,
             min_interval, max_interval, participant_id, selected_spectra,
             trials_per_spectrum>>

setup_keys == <<participant_id, selected_spectra, trials_per_spectrum>>

-----------------------------------------------------------------------------
(* Bounds of the model *)

MaxTime == 8            \* the clock stops here
MaxTotalSteps == 2      \* gradient lengths 1..MaxTotalSteps (the slider's 20..100, scaled)
MaxTrials == 2          \* longest trial order
MaxPresses == 2         \* detect presses modelled per trial
MaxLog == 4             \* longest result log
MaxSpread == 1          \* samples of uniform(lo, hi): lo..lo+MaxSpread
MaxGradient == 4        \* gradient lengths 1..MaxGradient of the colour-function specification

(* Program constants, in ticks of 0.1 s unless named Ms *)

TickMs == 100           \* 0.1 s in milliseconds: (t2 - t1) * 1000
FalseAlarmMs == 200     \* reaction_time < 200
DetectSleep == 2        \* time.sleep(0.2) after a handled press
InitIntervalMin == 5    \* random.uniform(0.5, 2.0)
InitIntervalMax == 20
StartTime == 1          \* time.time() of the first run: some positive reading
None == -1              \* Python's None where a number is expected
NoColour == <<>>        \* current_hex of a page without a colour box
NoCall == -1            \* interp_step of a run that did not call interpolate_color

-----------------------------------------------------------------------------
(* Pure helpers *)

Min(a, b) == IF a <= b THEN a ELSE b

\* random.uniform(lo, hi), cut down to a few of its outcomes
Uniform(lo, hi) == lo..Min(hi, lo + MaxSpread)

\* calculate_reaction_time: None when either timestamp is falsy
calculate_reaction_time(step_change_time, button_press_time) ==
    IF step_change_time # 0 /\ button_press_time # 0
    THEN (button_press_time - step_change_time) * TickMs
    ELSE None

\* `if reaction_time and reaction_time < 200`: 0.0 and None are falsy
FastResponse(reaction_time) ==
    /\ reaction_time # None
    /\ reaction_time # 0
    /\ reaction_time < FalseAlarmMs

\* an off-by-one variant of the completion test
TrialCompleteLate == current_step > total_steps

\* `if st.session_state.current_step >= st.session_state.total_steps: return True`
TrialComplete == current_step >= total_steps

\* a variant of the test that never finds the advance due
AdvanceDueNever(current_time) == FALSE

\* a variant that advances on every run
AdvanceDueAlways(current_time) == TRUE

\* `if current_time - last_update_time >= next_interval`
AdvanceDue(current_time) == current_time - last_update_time >= next_interval

PhaseRank(p) ==
    CASE p = "setup" -> 0
      [] p = "practice" -> 1
      [] p = "main" -> 2
      [] p = "results" -> 3

-----------------------------------------------------------------------------
(* Colours.  A hex colour is the sequence of its characters, "#" first; an  *)
(* interpolated channel is the exact rational num/den of                    *)
(* c1 + (c2 - c1) * current_step / steps.  The float the code computes      *)
(* differs from it by less than 1e-12, and it is an integer exactly when    *)
(* the rational is, so int() of the float is int() of the rational.         *)

HexDigitsLower ==
    <<"0", "1", "2", "3", "4", "5", "6", "7", "8", "9", "a", "b", "c", "d", "e", "f">>
HexDigitsUpper ==
    <<"0", "1", "2", "3", "4", "5", "6", "7", "8", "9", "A", "B", "C", "D", "E", "F">>

\* int(c, 16) of one character, tabulated over the hex digits of both cases
DigitValues ==
    [c \in {HexDigitsLower[n] : n \in 1..16} \cup {HexDigitsUpper[n] : n \in 1..16} |->
        CHOOSE v \in 0..15 : HexDigitsLower[v + 1] = c \/ HexDigitsUpper[v + 1] = c]

DigitValue(c) == DigitValues[c]

\* hex_color.lstrip('#')
LStripHash(hex_color) ==
    IF hex_color # <<>> /\ Head(hex_color) = "#" THEN Tail(hex_color)
                                                  ELSE hex_color

hex_to_rgb(hex_color) ==
    LET h == LStripHash(hex_color)
    IN  [i \in 1..3 |-> 16 * DigitValue(h[2 * i - 1]) + DigitValue(h[2 * i])]

\* int(x) of a rational: truncation towards zero
IntPart(x) ==
    IF x.num >= 0 THEN x.num \div x.den ELSE -((-x.num) \div x.den)

\* a variant of int(x) that rounds to the nearest integer, halves upwards
IntNearest(x) == (2 * x.num + x.den) \div (2 * x.den)

\* '{:02x}'.format(v), tabulated for 0 <= v <= 255
HexBytes ==
    [v \in 0..255 |-> <<HexDigitsLower[(v \div 16) + 1], HexDigitsLower[(v % 16) + 1]>>]

Format02x(v) == HexBytes[v]

\* a variant of rgb_to_hex that renders the nearest integer of each channel
rgb_to_hex_nearest(rgb) ==
    <<"#">> \o Format02x(IntNearest(rgb[1])) \o Format02x(IntNearest(rgb[2]))
            \o Format02x(IntNearest(rgb[3]))

rgb_to_hex(rgb) ==
    <<"#">> \o Format02x(IntPart(rgb[1])) \o Format02x(IntPart(rgb[2]))
            \o Format02x(IntPart(rgb[3]))

\* a variant of the interpolation that counts the steps from 1
interpolate_color_from_one(color1, color2, steps, step) ==
    LET c1 == hex_to_rgb(color1)
        c2 == hex_to_rgb(color2)
    IN  [i \in 1..3 |->
            [num |-> c1[i] * steps + (c2[i] - c1[i]) * (step + 1),
             den |-> steps]]

interpolate_color(color1, color2, steps, step) ==
    LET c1 == hex_to_rgb(color1)
        c2 == hex_to_rgb(color2)
    IN  [i \in 1..3 |->
            [num |-> c1[i] * steps + (c2[i] - c1[i]) * step,
             den |-> steps]]

\* the rgb text of a detection record: "(r, g, b)" with int() of each channel
RgbText(rgb) == [i \in 1..3 |-> IntPart(rgb[i])]

\* round(current_step / total_steps * 100, 2), in hundredths of a percent;
\* a value halfway between two hundredths goes to the even one
PercentageComplete(step, total) ==
    LET q == (step * 10000) \div total
        r == (step * 10000) % total
    IN  IF 2 * r < total THEN q
        ELSE IF 2 * r > total THEN q + 1
        ELSE IF q % 2 = 0 THEN q ELSE q + 1

Red    == <<"#", "F", "F", "0", "0", "0", "0">>
Orange == <<"#", "F", "F", "8", "8", "0", "0">>
Green  == <<"#", "0", "0", "F", "F", "0", "0">>
Yellow == <<"#", "F", "F", "F", "F", "0", "0">>
Blue   == <<"#", "0", "0", "0", "0", "F", "F">>
Purple == <<"#", "8", "0", "0", "0", "F", "F">>
Cyan   == <<"#", "0", "0", "F", "F", "F", "F">>

get_spectra_list ==
    [name \in {"Red to Orange", "Red to Green", "Yellow to Green",
               "Blue to Purple", "Orange to Yellow", "Green to Cyan"} |->
        CASE name = "Red to Orange"    -> <<Red, Orange>>
          [] name = "Red to Green"     -> <<Red, Green>>
          [] name = "Yellow to Green"  -> <<Yellow, Green>>
          [] name = "Blue to Purple"   -> <<Blue, Purple>>
          [] name = "Orange to Yellow" -> <<Orange, Yellow>>
          [] name = "Green to Cyan"    -> <<Green, Cyan>>]

\* every colour that occurs in the registry
RegistryColours ==
    {get_spectra_list[name][i] : name \in DOMAIN get_spectra_list, i \in 1..2}

practice_start_color == Red
practice_end_color == Yellow

-----------------------------------------------------------------------------
\* the multiselect: the two default spectra, in any order of selection
Selections ==
    { <<>>, <<"Red to Orange">>,
      <<"Red to Orange", "Red to Green">>, <<"Red to Green", "Red to Orange">> }

ParticipantIds == {"", "P1"}
MinIntervalChoices == {1, 5}      \* slider 0.1 .. 2.0
MaxIntervalChoices == {5}         \* slider 0.5 .. 5.0

\* a variant of the trial list that numbers the repeats from 0
TrialListZeroBased(selected, repeats) ==
    [i \in 1..(Len(selected) * repeats) |->
        LET spectrum_name == selected[((i - 1) \div repeats) + 1] IN
        [spectrum_name |-> spectrum_name,
         start_color   |-> get_spectra_list[spectrum_name][1],
         end_color     |-> get_spectra_list[spectrum_name][2],
         trial_number  |-> (i - 1) % repeats]]

\* the nested loops that build trial_list
TrialList(selected, repeats) ==
    [i \in 1..(Len(selected) * repeats) |->
        LET spectrum_name == selected[((i - 1) \div repeats) + 1] IN
        [spectrum_name |-> spectrum_name,
         start_color   |-> get_spectra_list[spectrum_name][1],
         end_color     |-> get_spectra_list[spectrum_name][2],
         trial_number  |-> ((i - 1) % repeats) + 1]]

\* random.shuffle: any permutation
Shuffles(s) ==
    LET n == Len(s)
        Bij == {p \in [1..n -> 1..n] : \A i, j \in 1..n : p[i] = p[j] => i = j}
    IN  {[i \in 1..n |-> s[p[i]]] : p \in Bij}

\* a variant of the validation without the test of the interval bounds
ErrorsNoIntervalTest(pid, selected, mn, mx) ==
    (IF pid = "" THEN {"participant"} ELSE {})
    \cup (IF selected = <<>> THEN {"spectra"} ELSE {})

\* the validation of render_setup_phase
Errors(pid, selected, mn, mx) ==
    (IF pid = "" THEN {"participant"} ELSE {})
    \cup (IF selected = <<>> THEN {"spectra"} ELSE {})
    \cup (IF mn >= mx THEN {"interval"} ELSE {})

-----------------------------------------------------------------------------
(* Initial state: initialize_session_state and the first render of Setup, *)
(* with the widgets' default values: an empty participant ID, the two      *)
(* default spectra, intervals 0.5 and 2.0                                   *)

DefaultErrors ==
    Errors("", <<"Red to Orange", "Red to Green">>, InitIntervalMin, InitIntervalMax)

Init ==
    /\ phase = "setup"
    /\ current_trial = 0
    /\ current_step = 0
    /\ now = StartTime
    /\ last_update_time = StartTime
    /\ last_step_change_time = StartTime
    /\ next_interval \in Uniform(InitIntervalMin, InitIntervalMax)
    /\ all_results = <<>>
    /\ current_trial_results = <<>>
    /\ spectra_order = <<>>
    /\ false_alarms = 0
    /\ total_steps = 0
    /\ min_interval = 0
    /\ max_interval = 0
    /\ participant_id = ""
    /\ selected_spectra = <<>>
    /\ trials_per_spectrum = 0
    /\ screen = "setup"
    /\ errors = DefaultErrors
    /\ randomized = FALSE
    /\ presses = 0
    /\ accepted = 0
    /\ log_at_start = 0
    /\ completions = 0
    /\ sampled = TRUE
    /\ interp_step = NoCall
    /\ current_hex = NoColour
    /\ trial_start_time = None

-----------------------------------------------------------------------------
(* The clock *)

Tick ==
    /\ now < MaxTime
    /\ now' = now + 1
    /\ UNCHANGED <<session, screen, errors, presses, accepted, log_at_start,
                   completions, sampled, interp_step, current_hex,
                   trial_start_time, randomized>>

-----------------------------------------------------------------------------
(* Setup: a run of render_setup_phase after a sidebar widget changed, and   *)
(* the Start Experiment button.  The arguments are the sidebar widgets'     *)
(* values in that run; the button is rendered only when the validation      *)
(* finds no error, and is pressed with the values it was rendered for.      *)

RenderSetup(pid, selected, mn, mx) ==
    /\ phase = "setup"
    /\ screen = "setup"
    /\ errors' = Errors(pid, selected, mn, mx)
    /\ sampled' = FALSE
    /\ UNCHANGED <<session, now, screen, presses, accepted, log_at_start,
                   completions, interp_step, current_hex,
                   trial_start_time, randomized>>

StartExperiment(pid, selected, repeats, randomize_order, include_practice, steps, mn, mx) ==
    /\ phase = "setup"
    /\ screen = "setup"
    /\ errors = {}
    /\ Errors(pid, selected, mn, mx) = errors
    /\ Len(selected) * repeats <= MaxTrials
    /\ participant_id' = pid
    /\ selected_spectra' = selected
    /\ trials_per_spectrum' = repeats
    /\ randomized' = randomize_order
    /\ UNCHANGED errors
    /\ trial_start_time' = now
    /\ total_steps' = steps
    /\ min_interval' = mn
    /\ max_interval' = mx
    /\ spectra_order' \in
          IF randomize_order
          THEN Shuffles(TrialList(selected, repeats))
          ELSE {TrialList(selected, repeats)}
    /\ IF include_practice
       THEN /\ phase' = "practice"
            /\ current_step' = 0
            /\ current_trial_results' = <<>>
            /\ UNCHANGED current_trial
       ELSE /\ phase' = "main"
            /\ current_trial' = 0
            /\ current_step' = 0
            /\ UNCHANGED current_trial_results
    /\ UNCHANGED <<last_update_time, last_step_change_time, next_interval,
                   all_results, false_alarms, now, accepted>>
    /\ screen' = "stale"
    /\ presses' = 0
    /\ log_at_start' = Len(all_results)
    /\ completions' = 0
    /\ sampled' = FALSE
    /\ interp_step' = NoCall
    /\ current_hex' = NoColour

-----------------------------------------------------------------------------
(* run_colour_trial on a trial in progress: one script run, with the detect *)
(* button pressed or not.  The button's key holds the step and the trial,   *)
(* so a press reaches the run only if the button of this very step is on    *)
(* screen.  The run always ends in st.rerun().                              *)

\* `current_trial_info = st.session_state.spectra_order[...current_trial]`
current_trial_info == spectra_order[current_trial + 1]

\* the colours render_practice_phase and render_main_experiment pass on
start_color ==
    IF phase = "practice" THEN practice_start_color
                          ELSE current_trial_info.start_color
end_color ==
    IF phase = "practice" THEN practice_end_color
                          ELSE current_trial_info.end_color

\* a variant that records every press twice
RecordDetectionTwice(result) ==
    Append(Append(current_trial_results, result), result)

\* a single-shot variant: only the first press of a trial is recorded
RecordFirstDetection(result) ==
    IF current_trial_results = <<>>
    THEN Append(current_trial_results, result)
    ELSE current_trial_results

\* `st.session_state.current_trial_results.append(result)`
RecordDetection(result) == Append(current_trial_results, result)

RunTrial(button_pressed) ==
    /\ UNCHANGED <<setup_keys, errors, randomized>>
    /\ phase \in {"practice", "main"}
    /\ ~TrialComplete
    /\ screen \in {"stale", "trial"}
    /\ button_pressed =>
          /\ screen = "trial"
          /\ presses < MaxPresses
          /\ now + DetectSleep <= MaxTime
    /\ LET current_rgb ==
               interpolate_color(start_color, end_color, total_steps, current_step)
           button_press_time == now
           reaction_time ==
               calculate_reaction_time(last_step_change_time, button_press_time)
           result == [participant_id      |-> participant_id,
                      step_number         |-> current_step,
                      total_steps         |-> total_steps,
                      percentage_complete |->
                          PercentageComplete(current_step, total_steps),
                      hex_code            |-> rgb_to_hex(current_rgb),
                      rgb                 |-> RgbText(current_rgb),
                      reaction_time_ms    |-> reaction_time,
                      captured_in         |-> current_trial,
                      is_practice         |-> phase = "practice"]
           current_time == IF button_pressed THEN now + DetectSleep ELSE now
       IN  /\ interp_step' = current_step
           /\ current_hex' = rgb_to_hex(current_rgb)
           /\ IF button_pressed
              THEN /\ current_trial_results' = RecordDetection(result)
                   /\ false_alarms' = IF FastResponse(reaction_time)
                                      THEN false_alarms + 1
                                      ELSE false_alarms
                   /\ presses' = presses + 1
                   /\ accepted' = IF phase = "main" THEN accepted + 1
                                                    ELSE accepted
              ELSE /\ UNCHANGED <<current_trial_results, false_alarms,
                                  presses, accepted>>
           /\ now' = current_time
           /\ IF AdvanceDue(current_time)
              THEN /\ current_step' = current_step + 1
                   /\ last_update_time' = current_time
                   /\ last_step_change_time' = current_time
                   /\ next_interval' \in Uniform(min_interval, max_interval)
                   /\ sampled' = TRUE
                   /\ completions' = IF current_step + 1 >= total_steps
                                     THEN completions + 1
                                     ELSE completions
                   /\ trial_start_time' = IF current_step + 1 >= total_steps
                                          THEN None
                                          ELSE trial_start_time
                   /\ screen' = "stale"
              ELSE /\ UNCHANGED <<current_step, last_update_time,
                                  last_step_change_time, next_interval,
                                  completions, trial_start_time>>
                   /\ sampled' = FALSE
                   /\ screen' = "trial"
    /\ UNCHANGED <<phase, current_trial, all_results, spectra_order,
                   total_steps, min_interval, max_interval, log_at_start>>

-----------------------------------------------------------------------------
(* Practice: render_practice_phase once run_colour_trial returns True *)

\* a variant whose Start Main Experiment button returns to the setup page
PhaseAfterPracticeBack == "setup"

\* `st.session_state.phase = 'main'` of the Start Main Experiment button
PhaseAfterPractice == "main"

RenderPracticeDone ==
    /\ UNCHANGED <<errors, randomized, trial_start_time>>
    /\ phase = "practice"
    /\ TrialComplete
    /\ screen = "stale"
    /\ screen' = "practice_done"
    /\ sampled' = FALSE
    /\ interp_step' = NoCall
    /\ current_hex' = NoColour
    /\ UNCHANGED <<session, now, presses, accepted, log_at_start, completions>>

\* a variant whose Start Main Experiment button keeps the practice detections
ResultsKeptAtMainStart == current_trial_results

\* `st.session_state.current_trial_results = []` of Start Main Experiment
ResultsAtMainStart == <<>>

StartMain ==
    /\ UNCHANGED <<setup_keys, errors, randomized>>
    /\ trial_start_time' = now
    /\ phase = "practice"
    /\ TrialComplete
    /\ screen = "practice_done"
    /\ phase' = PhaseAfterPractice
    /\ current_trial' = 0
    /\ current_step' = 0
    /\ current_trial_results' = ResultsAtMainStart
    /\ false_alarms' = 0
    /\ UNCHANGED <<last_update_time, last_step_change_time, next_interval,
                   all_results, spectra_order, total_steps, min_interval,
                   max_interval, now, accepted>>
    /\ screen' = "stale"
    /\ presses' = 0
    /\ log_at_start' = Len(all_results)
    /\ completions' = 0
    /\ sampled' = FALSE
    /\ interp_step' = NoCall
    /\ current_hex' = NoColour

-----------------------------------------------------------------------------
(* Main: render_main_experiment once run_colour_trial returns True.  Every  *)
(* such run first executes the "Save trial results" loop, whichever button  *)
(* (if any) caused the run.                                                 *)

\* the loop's writes into one result of current_trial_results
WithTrialInfo(result, info) ==
    [participant_id      |-> result.participant_id,
     step_number         |-> result.step_number,
     total_steps         |-> result.total_steps,
     percentage_complete |-> result.percentage_complete,
     hex_code            |-> result.hex_code,
     rgb                 |-> result.rgb,
     reaction_time_ms    |-> result.reaction_time_ms,
     captured_in         |-> result.captured_in,
     is_practice         |-> result.is_practice,
     spectrum            |-> info.spectrum_name,
     trial_number        |-> info.trial_number,
     overall_trial       |-> current_trial + 1]

\* a variant that logs a no-response record for a trial without detections
SavedResultsOrNoResponse ==
    IF current_trial_results = <<>>
    THEN << WithTrialInfo([participant_id      |-> participant_id,
                           step_number         |-> total_steps,
                           total_steps         |-> total_steps,
                           percentage_complete |->
                               PercentageComplete(total_steps, total_steps),
                           hex_code            |-> current_trial_info.end_color,
                           rgb                 |-> hex_to_rgb(current_trial_info.end_color),
                           reaction_time_ms    |-> None,
                           captured_in         |-> current_trial,
                           is_practice         |-> phase = "practice"],
                          current_trial_info) >>
    ELSE [i \in DOMAIN current_trial_results |->
            WithTrialInfo(current_trial_results[i], current_trial_info)]

\* a variant that labels every record with the first trial of the order
SavedResultsFirstTrial ==
    [i \in DOMAIN current_trial_results |->
        WithTrialInfo(current_trial_results[i], spectra_order[1])]

\* the "Save trial results" loop: what it appends to all_results
SavedResults ==
    [i \in DOMAIN current_trial_results |->
        WithTrialInfo(current_trial_results[i], current_trial_info)]

\* a variant that offers Next Trial after every trial, the last included
MoreTrialsAlways == TRUE

\* a variant that offers View Results one trial early
MoreTrialsEarly == current_trial + 2 < Len(spectra_order)

\* `if st.session_state.current_trial + 1 < total_trials`
MoreTrials == current_trial + 1 < Len(spectra_order)

\* no button, or Take a Break
RenderMainDone ==
    /\ UNCHANGED <<setup_keys, errors, randomized, trial_start_time>>
    /\ phase = "main"
    /\ TrialComplete
    /\ screen \in {"stale", "trial_done"}
    /\ Len(all_results) + Len(SavedResults) <= MaxLog
    /\ all_results' = all_results \o SavedResults
    /\ current_trial_results' = SavedResults
    /\ screen' = IF MoreTrials THEN "trial_done" ELSE "all_done"
    /\ sampled' = FALSE
    /\ interp_step' = NoCall
    /\ current_hex' = NoColour
    /\ UNCHANGED <<phase, current_trial, current_step, last_update_time,
                   last_step_change_time, next_interval, spectra_order,
                   false_alarms, total_steps, min_interval, max_interval,
                   now, presses, accepted, log_at_start, completions>>

NextTrial ==
    /\ UNCHANGED <<setup_keys, errors, randomized>>
    /\ trial_start_time' = now
    /\ phase = "main"
    /\ TrialComplete
    /\ screen = "trial_done"
    /\ MoreTrials
    /\ Len(all_results) + Len(SavedResults) <= MaxLog
    /\ all_results' = all_results \o SavedResults
    /\ current_trial' = current_trial + 1
    /\ current_step' = 0
    /\ current_trial_results' = <<>>
    /\ false_alarms' = 0
    /\ UNCHANGED <<phase, last_update_time, last_step_change_time,
                   next_interval, spectra_order, total_steps, min_interval,
                   max_interval, now, accepted>>
    /\ screen' = "stale"
    /\ presses' = 0
    /\ log_at_start' = Len(all_results')
    /\ completions' = 0
    /\ sampled' = FALSE
    /\ interp_step' = NoCall
    /\ current_hex' = NoColour

ViewResults ==
    /\ UNCHANGED <<setup_keys, errors, randomized, trial_start_time>>
    /\ phase = "main"
    /\ TrialComplete
    /\ screen = "all_done"
    /\ ~MoreTrials
    /\ Len(all_results) + Len(SavedResults) <= MaxLog
    /\ all_results' = all_results \o SavedResults
    /\ current_trial_results' = SavedResults
    /\ phase' = "results"
    /\ UNCHANGED <<current_trial, current_step, last_update_time,
                   last_step_change_time, next_interval, spectra_order,
                   false_alarms, total_steps, min_interval, max_interval,
                   now, presses, accepted, log_at_start, completions>>
    /\ screen' = "stale"
    /\ sampled' = FALSE
    /\ interp_step' = NoCall
    /\ current_hex' = NoColour

-----------------------------------------------------------------------------
(* Results: render_results_phase.  Start New Experiment deletes every key   *)
(* and reruns; the rerun's initialize_session_state recreates the defaults. *)

\* a variant whose reset loop spares the result log
ResultsKeptAfterReset == all_results

\* `del st.session_state[key]`, then `st.session_state.all_results = []`
ResultsAfterReset == <<>>

\* `df = pd.DataFrame(st.session_state.all_results)`: the records that the
\* statistics of the results page aggregate
StatsPopulation == all_results

\* `rt_data = df[df['reaction_time_ms'].notna()]['reaction_time_ms']`
RtPopulation ==
    SelectSeq(StatsPopulation, LAMBDA result : result.reaction_time_ms # None)

RenderResults ==
    /\ UNCHANGED <<errors, randomized, trial_start_time>>
    /\ phase = "results"
    /\ screen = "stale"
    /\ screen' = "results"
    /\ sampled' = FALSE
    /\ interp_step' = NoCall
    /\ current_hex' = NoColour
    /\ UNCHANGED <<session, now, presses, accepted, log_at_start, completions>>

NewExperiment ==
    /\ phase = "results"
    /\ screen = "results"
    /\ phase' = "setup"
    /\ current_trial' = 0
    /\ current_step' = 0
    /\ last_update_time' = now
    /\ last_step_change_time' = now
    /\ next_interval' \in Uniform(InitIntervalMin, InitIntervalMax)
    /\ all_results' = ResultsAfterReset
    /\ current_trial_results' = <<>>
    /\ spectra_order' = <<>>
    /\ false_alarms' = 0
    /\ total_steps' = 0
    /\ min_interval' = 0
    /\ max_interval' = 0
    /\ participant_id' = ""
    /\ selected_spectra' = <<>>
    /\ trials_per_spectrum' = 0
    /\ UNCHANGED now
    /\ trial_start_time' = None
    /\ screen' = "setup"
    /\ errors' = DefaultErrors
    /\ randomized' = FALSE
    /\ presses' = 0
    /\ accepted' = 0
    /\ log_at_start' = 0
    /\ completions' = 0
    /\ sampled' = TRUE
    /\ interp_step' = NoCall
    /\ current_hex' = NoColour

-----------------------------------------------------------------------------

Next ==
    \/ Tick
    \/ \E pid \in ParticipantIds, selected \in Selections,
          mn \in MinIntervalChoices, mx \in MaxIntervalChoices :
          RenderSetup(pid, selected, mn, mx)
    \/ \E pid \in ParticipantIds, selected \in Selections,
          repeats \in 1..MaxTrials,
          randomize_order \in BOOLEAN, include_practice \in BOOLEAN,
          steps \in 1..MaxTotalSteps,
          mn \in MinIntervalChoices, mx \in MaxIntervalChoices :
          StartExperiment(pid, selected, repeats, randomize_order,
                          include_practice, steps, mn, mx)
    \/ \E button_pressed \in BOOLEAN : RunTrial(button_pressed)
    \/ RenderPracticeDone
    \/ StartMain
    \/ RenderMainDone
    \/ NextTrial
    \/ ViewResults
    \/ RenderResults
    \/ NewExperiment

Spec == Init /\ [][Next]_vars

-----------------------------------------------------------------------------
(* The colour functions on their own: a trial between any two colours of    *)
(* the registry and any number of gradient steps, on which                  *)
(* interpolate_color and rgb_to_hex are applied at any step from 0 to       *)
(* total_steps, as run_colour_trial applies them.                           *)

InitColour ==
    /\ phase = "main"
    /\ current_trial = 0
    /\ current_step = 0
    /\ last_update_time = StartTime
    /\ last_step_change_time = StartTime
    /\ next_interval = InitIntervalMin
    /\ all_results = <<>>
    /\ current_trial_results = <<>>
    /\ \E color1 \in RegistryColours, color2 \in RegistryColours :
          spectra_order = << [spectrum_name |-> "pair",
                              start_color   |-> color1,
                              end_color     |-> color2,
                              trial_number  |-> 1] >>
    /\ false_alarms = 0
    /\ total_steps \in 1..MaxGradient
    /\ min_interval = InitIntervalMin
    /\ max_interval = InitIntervalMax
    /\ participant_id = "P1"
    /\ selected_spectra = <<"pair">>
    /\ trials_per_spectrum = 1
    /\ now = StartTime
    /\ screen = "stale"
    /\ errors = {}
    /\ presses = 0
    /\ accepted = 0
    /\ log_at_start = 0
    /\ completions = 0
    /\ sampled = FALSE
    /\ interp_step = NoCall
    /\ current_hex = NoColour
    /\ trial_start_time = StartTime
    /\ randomized = FALSE

\* lines 459-465 of run_colour_trial, at any step up to total_steps
Interpolate(step) ==
    /\ interp_step' = step
    /\ current_hex' =
          rgb_to_hex(interpolate_color(start_color, end_color, total_steps, step))
    /\ screen' = "trial"
    /\ UNCHANGED <<session, now, errors, presses, accepted, log_at_start,
                   completions, sampled, trial_start_time, randomized>>

NextColour == \E step \in 0..total_steps : Interpolate(step)

SpecColour == InitColour /\ [][NextColour]_vars

-----------------------------------------------------------------------------
(* The program under its scheduling: time keeps advancing, and a running    *)
(* trial keeps re-running the script, since every run of run_colour_trial   *)
(* on a trial in progress ends in st.rerun().                               *)

SpecFair ==
    /\ Init
    /\ [][Next]_vars
    /\ WF_vars(Tick)
    /\ WF_vars(RunTrial(FALSE))

-----------------------------------------------------------------------------
(* Properties *)

InTrialPhase == phase \in {"practice", "main"}

\* a step that starts a trial: the practice trial, the first main trial, or
\* the trial entered by Next Trial
TrialStarts ==
    /\ phase' \in {"practice", "main"}
    /\ phase' # phase \/ current_trial' # current_trial

\* C1: every detection accepted in a main trial is in all_results exactly
\* once: the log never holds more entries than detections were accepted, and
\* once a completed trial's screen has been rendered (and in Results, where
\* 'Total Detections' is Len(all_results)) it holds exactly one per detection.
C1_LoggedExactlyOnce ==
    /\ Len(all_results) <= accepted
    /\ ( \/ phase = "results"
         \/ /\ phase = "main"
            /\ current_step >= total_steps
            /\ screen \in {"trial_done", "all_done"} )
       => Len(all_results) = accepted

\* C2 (as claimed): however often detect is pressed in a running trial, the
\* trial holds exactly one detection record.
C2_SecondPressIgnored ==
    presses >= 1 => Len(current_trial_results) = 1

\* C2 (amended): every detect press handled in a running trial appends one
\* record, so the trial holds as many records as presses were handled.
C2_EveryPressRecorded ==
    Len(current_trial_results) = presses

C2_Witness ==
    /\ InTrialPhase
    /\ presses = 2
    /\ Len(current_trial_results) = 2
    /\ current_trial_results[1].step_number = current_trial_results[2].step_number

\* C3: a step that starts a trial resets the step state: current_step is 0,
\* next_interval is drawn anew, and last_update_time and
\* last_step_change_time are the time of the start.
C3_StepStateResetAtTrialStart ==
    [][TrialStarts =>
          /\ current_step' = 0
          /\ sampled'
          /\ last_update_time' = now'
          /\ last_step_change_time' = now']_vars

\* C4: the false-alarm counter counts exactly the detections of the trial
\* whose reaction time is below the threshold, 0 ms included.
C4_FalseAlarmIffBelowThreshold ==
    false_alarms =
        Cardinality({i \in DOMAIN current_trial_results :
                        /\ current_trial_results[i].reaction_time_ms >= 0
                        /\ current_trial_results[i].reaction_time_ms < FalseAlarmMs})

\* C5: in a started session 0 <= current_step <= total_steps, and
\* interpolate_color is only called with a step below total_steps.
C5_StepWithinRange ==
    phase # "setup" =>
        /\ 0 <= current_step
        /\ current_step <= total_steps
        /\ interp_step < total_steps

C5_Witness ==
    /\ phase = "main"
    /\ current_step = total_steps
    /\ total_steps = 2
    /\ screen = "trial_done"
    /\ interp_step = NoCall

\* C6: while a trial is running, the wait that governs the next step advance
\* lies within [min_interval, max_interval].
C6_IntervalWithinConfiguredBounds ==
    (InTrialPhase /\ current_step < total_steps) =>
        /\ min_interval <= next_interval
        /\ next_interval <= max_interval

\* C7: current_step grows only by a step advance: by exactly 1, from a step
\* below total_steps, when at least next_interval has elapsed since
\* last_update_time; the advance sets last_update_time to the current time
\* and draws a new next_interval within the configured bounds.
C7_StepAdvance ==
    [][current_step' > current_step =>
          /\ current_step' = current_step + 1
          /\ current_step < total_steps
          /\ InTrialPhase
          /\ now' - last_update_time >= next_interval
          /\ last_update_time' = now'
          /\ sampled'
          /\ next_interval' \in min_interval..max_interval]_vars

C7_Witness ==
    /\ InTrialPhase
    /\ current_step = 2
    /\ screen = "stale"
    /\ sampled
    /\ last_update_time = now

\* C8: a main trial that reached total_steps without a detect press reached
\* it exactly once, and the log is as long as it was when the trial started.
C8_NoResponseTrialAddsNoRecord ==
    (phase = "main" /\ current_step >= total_steps /\ presses = 0) =>
        /\ completions = 1
        /\ Len(all_results) = log_at_start

C8_Witness ==
    /\ phase = "main"
    /\ current_step >= total_steps
    /\ presses = 0
    /\ screen = "all_done"
    /\ log_at_start >= 1
    /\ Len(all_results) = log_at_start

\* C9 (as claimed): a trial that has a detection record never reaches
\* total_steps, and a trial that reached total_steps has no detection record.
C9_DetectionExcludesTimeout ==
    (InTrialPhase /\ current_step >= total_steps) =>
        current_trial_results = <<>>

\* C9 (amended): once a trial has reached total_steps no further detection
\* is recorded for it (a detection itself does not end the trial).
C9_NoDetectionAfterTimeout ==
    [][(InTrialPhase /\ current_step >= total_steps) =>
          /\ Len(current_trial_results') <= Len(current_trial_results)
          /\ false_alarms' <= false_alarms
          /\ presses' <= presses]_vars

C9_Witness ==
    /\ phase = "main"
    /\ current_step >= total_steps
    /\ Len(current_trial_results) >= 1
    /\ screen = "trial_done"

\* C10: the phase never moves backwards in Setup < Practice < Main < Results,
\* except from Results back to Setup (the full reset).
C10_PhaseForwardOnly ==
    [][\/ PhaseRank(phase') >= PhaseRank(phase)
       \/ phase = "results" /\ phase' = "setup"]_vars

C10_Witness ==
    /\ phase = "setup"
    /\ last_update_time > StartTime

\* C11: whenever the session is in Setup, and so after the full reset from
\* Results, the result log, the current-trial results and the trial order
\* are empty and the trial index, the step and the false-alarm counter are 0.
C11_ResetRestoresInitialState ==
    phase = "setup" =>
        /\ all_results = <<>>
        /\ current_trial_results = <<>>
        /\ spectra_order = <<>>
        /\ current_trial = 0
        /\ current_step = 0
        /\ false_alarms = 0

\* Setup reached again by Start New Experiment, later than the first page load
C11_Witness ==
    /\ phase = "setup"
    /\ screen = "setup"
    /\ accepted = 0
    /\ last_step_change_time > StartTime
    /\ last_step_change_time = last_update_time

\* the trial order against the saved selection: every (spectrum, repeat)
\* pair at exactly one position, and selection-then-repeat order when the
\* order was not shuffled
OrderWellFormed ==
    /\ Len(spectra_order) = Len(selected_spectra) * trials_per_spectrum
    /\ \A j \in 1..Len(selected_spectra), k \in 1..trials_per_spectrum :
          Cardinality({i \in 1..Len(spectra_order) :
                          /\ spectra_order[i].spectrum_name = selected_spectra[j]
                          /\ spectra_order[i].trial_number = k}) = 1
    /\ ~randomized =>
          \A j \in 1..Len(selected_spectra), k \in 1..trials_per_spectrum :
              LET i == (j - 1) * trials_per_spectrum + k IN
              /\ i <= Len(spectra_order)
              /\ spectra_order[i].spectrum_name = selected_spectra[j]
              /\ spectra_order[i].trial_number = k

C13_InvalidConfigStaysInSetup ==
    [][ /\ errors # {} => phase' = "setup"
        /\ (phase = "setup" /\ phase' # "setup") =>
               /\ participant_id' # ""
               /\ selected_spectra' # <<>>
               /\ min_interval' < max_interval'
      ]_vars

C13_Witness ==
    /\ phase = "setup"
    /\ errors = {"spectra", "interval"}
    /\ now > StartTime

\* the exact interpolated channel i at the step given to interpolate_color,
\* as a numerator over total_steps
ExactChannelTimesSteps(i) ==
    hex_to_rgb(start_color)[i] * total_steps
    + (hex_to_rgb(end_color)[i] - hex_to_rgb(start_color)[i]) * interp_step

\* C14: for every pair of registry colours and every total_steps > 0, the
\* hex rendering of the interpolation at step 0 is the start colour and at
\* step total_steps is the end colour, compared as RGB triples.
C14_EndpointsExact ==
    current_hex # NoColour =>
        /\ interp_step = 0 => hex_to_rgb(current_hex) = hex_to_rgb(start_color)
        /\ interp_step = total_steps =>
               hex_to_rgb(current_hex) = hex_to_rgb(end_color)

C14_Witness ==
    /\ start_color = Red
    /\ end_color = Orange
    /\ total_steps = 3
    /\ interp_step = total_steps
    /\ current_hex = <<"#", "f", "f", "8", "8", "0", "0">>

\* C15 as stated: every rendered channel is the integer nearest to
\* start + (end - start) * s / total_steps and lies in 0..255.
C15_ChannelIsNearestInteger ==
    current_hex # NoColour =>
        \A i \in 1..3 :
            LET v == hex_to_rgb(current_hex)[i]
                d == v * total_steps - ExactChannelTimesSteps(i)
            IN  /\ v \in 0..255
                /\ 2 * d <= total_steps
                /\ 2 * (-d) <= total_steps

\* C15 amended: every rendered channel is the integer part of
\* start + (end - start) * s / total_steps (the value truncated, never
\* rounded up) and lies in 0..255.
C15_ChannelIsIntegerPart ==
    current_hex # NoColour =>
        \A i \in 1..3 :
            LET v == hex_to_rgb(current_hex)[i]
            IN  /\ v \in 0..255
                /\ v * total_steps <= ExactChannelTimesSteps(i)
                /\ ExactChannelTimesSteps(i) < (v + 1) * total_steps

C15_Witness ==
    /\ start_color = Red
    /\ end_color = Green
    /\ total_steps = 4
    /\ interp_step = 1
    /\ current_hex = <<"#", "b", "f", "3", "f", "0", "0">>

\* C16: the statistics of the results page are computed only over
\* detections that were not classified as false alarms: no record of the
\* aggregated populations has a reaction time that counted as a false alarm.
C16_StatisticsExcludeFalseAlarms ==
    (phase = "results" /\ screen = "results") =>
        /\ \A i \in DOMAIN StatsPopulation :
               ~FastResponse(StatsPopulation[i].reaction_time_ms)
        /\ \A i \in DOMAIN RtPopulation :
               ~FastResponse(RtPopulation[i].reaction_time_ms)

\* C17: practice data is never saved: no record of all_results was captured
\* in the Practice phase, all_results stays empty through Setup and
\* Practice, and the step that enters Main leaves current_trial_results
\* empty and false_alarms zero.
C17_PracticeNeverSaved ==
    [][ /\ \A i \in DOMAIN all_results' : ~all_results'[i].is_practice
        /\ phase' \in {"setup", "practice"} => all_results' = <<>>
        /\ (phase # "main" /\ phase' = "main") =>
               /\ current_trial_results' = <<>>
               /\ false_alarms' = 0
      ]_vars

C17_Witness ==
    /\ phase = "practice"
    /\ screen = "practice_done"
    /\ Len(current_trial_results) = 2
    /\ current_trial_results[1].is_practice
    /\ false_alarms >= 1
    /\ all_results = <<>>

\* a record against the page it was captured on: the step, the percentage
\* (hundredths of a percent, to two decimals) and the colour of the box
RecordMatchesPage(r, step, total, color1, color2, shown) ==
    /\ r.step_number = step
    /\ r.total_steps = total
    /\ 2 * (r.percentage_complete * total - step * 10000) <= total
    /\ 2 * (step * 10000 - r.percentage_complete * total) <= total
    /\ r.percentage_complete >= 0
    /\ r.percentage_complete < 10000
    /\ r.hex_code = shown
    /\ r.rgb = hex_to_rgb(r.hex_code)
    /\ \A i \in 1..3 :
          LET v == r.rgb[i]
              exact == hex_to_rgb(color1)[i] * total
                       + (hex_to_rgb(color2)[i] - hex_to_rgb(color1)[i]) * step
          IN  v * total <= exact /\ exact < (v + 1) * total

\* a logged record carries the spectrum and repeat of the trial that
\* captured it
LabelledWithOwnTrial(a) ==
    /\ a.captured_in + 1 \in DOMAIN spectra_order
    /\ a.spectrum = spectra_order[a.captured_in + 1].spectrum_name
    /\ a.trial_number = spectra_order[a.captured_in + 1].trial_number
    /\ a.overall_trial = a.captured_in + 1

LogLabelled == \A i \in DOMAIN all_results : LabelledWithOwnTrial(all_results[i])

\* C18: every detection record is consistent with the state it was captured
\* in: its step_number is the step shown at the press, its
\* percentage_complete is 100 * step_number / total_steps to two decimals
\* and in [0, 100), its colour is the one shown, the interpolation of the
\* running trial's colours at that step, and every logged record carries
\* the spectrum and repeat of the trial that captured it; at the midpoint
\* of Red to Green the record has 50.00 % and RGB (127, 127, 0) = #7F7F00.
C18_RecordConsistent ==
    [][ /\ presses' = presses + 1 =>
               LET r == current_trial_results'[Len(current_trial_results')]
               IN  /\ Len(current_trial_results') = Len(current_trial_results) + 1
                   /\ interp_step = current_step
                   /\ RecordMatchesPage(r, current_step, total_steps,
                                        start_color, end_color, current_hex)
                   /\ ( /\ phase = "main"
                        /\ current_trial_info.spectrum_name = "Red to Green"
                        /\ 2 * current_step = total_steps )
                      => /\ r.percentage_complete = 5000
                         /\ r.rgb = <<127, 127, 0>>
        /\ LogLabelled'
      ]_vars

C18_Witness ==
    /\ all_results # <<>>
    /\ all_results[1].spectrum = "Red to Green"
    /\ all_results[1].step_number = 1
    /\ all_results[1].total_steps = 2
    /\ all_results[1].percentage_complete = 5000
    /\ all_results[1].hex_code = <<"#", "7", "f", "7", "f", "0", "0">>

\* C19: the reaction time of a detection is measured from a reference
\* inside the current trial, so for every detection, one made at step 0
\* included, it never exceeds the time elapsed since the trial started.
C19_ReactionTimeWithinTrial ==
    [][ presses' = presses + 1 =>
            LET r == current_trial_results'[Len(current_trial_results')]
            IN  /\ last_step_change_time >= trial_start_time
                /\ r.reaction_time_ms # None =>
                       r.reaction_time_ms <= (now - trial_start_time) * TickMs
      ]_vars

\* C20: within an experiment (the full reset, which re-creates the whole
\* session, aside) the trial index changes only by Next Trial from a
\* completed trial (current_step = total_steps), by exactly +1; Main is
\* entered at index 0 and left for Results only when the last trial of the
\* order has completed, so the trials are run once each, in order.
C20_TrialIndexAdvancesByNextTrial ==
    [][ /\ (current_trial' # current_trial /\ phase' # "setup") =>
               /\ phase = "main" /\ phase' = "main"
               /\ screen = "trial_done"
               /\ current_step = total_steps
               /\ current_trial' = current_trial + 1
               /\ current_trial' < Len(spectra_order)
               /\ current_step' = 0
        /\ (phase # "main" /\ phase' = "main") => current_trial' = 0
        /\ (phase = "main" /\ phase' # "main") =>
               /\ phase' = "results"
               /\ current_step = total_steps
               /\ current_trial + 1 = Len(spectra_order)
      ]_vars

C20_Witness ==
    /\ phase = "results"
    /\ Len(spectra_order) = 2
    /\ current_trial = 1
    /\ current_step = total_steps

\* C21: no detection record is created outside a running trial: a step
\* that adds a record to current_trial_results, raises false_alarms or
\* handles a press is taken in Practice or Main with current_step below
\* total_steps; from Setup and Results no step adds to the result log, and
\* what a completed trial adds to the log are records of its running time.
C21_DetectionOnlyWhileRunning ==
    [][ /\ ( \/ Len(current_trial_results') > Len(current_trial_results)
             \/ false_alarms' > false_alarms
             \/ presses' > presses )
           => /\ phase \in {"practice", "main"}
              /\ phase' = phase
              /\ current_step < total_steps
              /\ screen = "trial"
        /\ phase \in {"setup", "results"} =>
               Len(all_results') <= Len(all_results)
        /\ (phase \in {"practice", "main"} /\ current_step >= total_steps) =>
               \A i \in DOMAIN all_results' :
                   \/ i \in DOMAIN all_results /\ all_results'[i] = all_results[i]
                   \/ \E j \in DOMAIN current_trial_results :
                         /\ all_results'[i].step_number = current_trial_results[j].step_number
                         /\ all_results'[i].reaction_time_ms = current_trial_results[j].reaction_time_ms
                         /\ all_results'[i].step_number < total_steps
      ]_vars

C21_Witness ==
    /\ phase = "results"
    /\ screen = "results"
    /\ presses = 2
    /\ false_alarms = 1
    /\ Len(current_trial_results) = 2
    /\ current_step = total_steps

\* C22: handling a detect press changes only current_trial_results and
\* false_alarms: the run of a press leaves the phase, the trial index, the
\* trial order and the result log unchanged, adds exactly one record, and
\* leaves current_step, next_interval and both timestamps unchanged unless
\* the run's own step advance is due after the press, which then acts as
\* in a run without a press.
C22_PressFrame ==
    [][ presses' = presses + 1 =>
            /\ UNCHANGED <<phase, current_trial, spectra_order, all_results,
                           total_steps, min_interval, max_interval>>
            /\ Len(current_trial_results') = Len(current_trial_results) + 1
            /\ SubSeq(current_trial_results', 1, Len(current_trial_results))
                   = current_trial_results
            /\ false_alarms' \in {false_alarms, false_alarms + 1}
            /\ IF now' - last_update_time >= next_interval
               THEN /\ current_step' = current_step + 1
                    /\ last_update_time' = now'
                    /\ last_step_change_time' = now'
               ELSE UNCHANGED <<current_step, next_interval, last_update_time,
                                last_step_change_time>>
      ]_vars

C22_Witness ==
    /\ phase = "main"
    /\ screen = "trial"
    /\ presses = 1
    /\ Len(current_trial_results) = 1
    /\ current_step = 1
    /\ last_step_change_time = last_update_time
    /\ now = last_update_time + DetectSleep

\* the time at which the current step's advance falls due
AdvanceDueTime == last_update_time + next_interval

\* C23: under fair ticks and fair re-runs of the script, every trial that
\* starts running eventually becomes complete, pressed or not: every step
\* of a running trial whose advance falls due within the modelled clock is
\* eventually followed by the next step, the last one by completion
\* (current_step = total_steps).
C23_EveryStepEventuallyAdvances ==
    \A s \in 0..(MaxTotalSteps - 1) :
        ( /\ phase \in {"practice", "main"}
          /\ current_step = s
          /\ s < total_steps
          /\ AdvanceDueTime <= MaxTime )
            ~> (phase \in {"practice", "main"} /\ current_step = s + 1)

C23_Witness ==
    /\ phase = "main"
    /\ total_steps = 2
    /\ current_step = total_steps
    /\ presses = 2
    /\ screen = "trial_done"

\* C24: whenever the phase is Main, the trial order is non-empty and
\* 0 <= current_trial < length of the trial order, so the reads of
\* spectra_order[current_trial] never go out of bounds.
C24_TrialIndexInBounds ==
    phase = "main" =>
        /\ spectra_order # <<>>
        /\ current_trial >= 0
        /\ current_trial < Len(spectra_order)

C24_Witness ==
    /\ phase = "main"
    /\ Len(spectra_order) = 2
    /\ current_trial = Len(spectra_order) - 1
    /\ screen = "all_done"
    /\ presses >= 1

=============================================================================
